---- MODULE Spec2Model ----
(***************************************************************************)
(* Model of the userbot's command handlers (src/handlers.py) and of the    *)
(* helpers they use (src/utils.py).                                        *)
(*                                                                         *)
(* Every inbound command is one handler coroutine; an admitted bulk        *)
(* command also owns one Executor task (execute_tagging / execute_spam).   *)
(* The code runs on one asyncio event loop, so a coroutine runs without    *)
(* interruption from one await to the next: each action below is the code  *)
(* between two consecutive awaits of one coroutine, fired by the           *)
(* completion of the awaited network call, sleep or task.                  *)
(***************************************************************************)
EXTENDS Integers, Sequences, FiniteSets, TLC

\* ------------------------------------------------------------- bounds
\* Number of inbound commands in a run.
NumCmds == 3
\* Number of those that may be bulk commands (/tagall, /spam).
MaxBulk == 2
\* Number of those that may be basic commands (/ping, /id, /stats).
MaxBasic == 1
\* Number of those that may be bulk or basic commands (the others are stop
\* commands).
MaxWork == 2
\* Longest Pacer wait, in 0.1 s sleep increments.
MaxTicks == 2
\* Configured MAX_SPAM_COUNT of the modelled deployment (MAX_SPAM_COUNT env).
MaxSpamCount == 2
\* Configured DEFAULT_SPAM_COUNT of the modelled deployment.
DefaultSpamCount == 1

\* ---------------------------------------------------------- fixtures
H == 1..NumCmds
None == "None"

\* Accounts: a configured admin, the userbot's own account, a stranger.
\* Commands are sent by the admin or by the stranger.
AdminUser == "admin"
SelfUser == "self"
OtherUser == "other"
Senders == {AdminUser, OtherUser}
ADMIN_IDS == {AdminUser}
bot_id == SelfUser

\* Chats: a private chat and a group.  /spam commands are sent in the
\* private chat (handle_spam does not ask for a group).
Chats == {"pm", "group"}
SpamChats == {"pm"}
is_group(chat) == chat = "group"

User(id, username, first_name, bot, deleted, self) ==
    [id |-> id, username |-> username, first_name |-> first_name,
     bot |-> bot, deleted |-> deleted, is_self |-> self]

\* What iter_participants can return for the group: members that are all
\* filtered out, or members of which two are taggable.
Enumerations ==
    { << User("7", "me", "Me", FALSE, FALSE, TRUE),
         User("8", None, None, FALSE, TRUE, FALSE) >>,
      << User("1", "alice", "Alice", FALSE, FALSE, FALSE),
         User("9", "helper", "Helper", TRUE, FALSE, FALSE),
         User("2", None, None, FALSE, FALSE, FALSE) >> }

\* Texts are sequences of tokens.
NoText == << >>
ArgTexts == {NoText, <<"hello">>}

VARIABLES
    allow_parallel_commands,  \* BotHandlers.allow_parallel_commands
    is_command_active,        \* BotHandlers.is_command_active
    current_task,             \* BotHandlers.current_task (None or the handler that created it)
    stop_command,             \* BotHandlers.stop_command
    active_command_type,      \* BotHandlers.active_command_type
    pc,                       \* position of each handler coroutine
    cmd,                      \* the event each handler was called with
    ex,                       \* each handler's Executor task: position and locals
    deleted,                  \* command messages whose event.delete() succeeded
    raised,                   \* handlers an exception propagated out of
    late,                     \* coroutines whose pending await began after a ready callback was queued
    bulk_arrived,             \* number of bulk commands that have arrived
    basic_arrived,            \* number of basic commands that have arrived
    call                      \* the latest call of a helper on its own: arguments and result

cfg == <<allow_parallel_commands, bulk_arrived, basic_arrived, call>>
ctl == <<is_command_active, current_task, stop_command, active_command_type>>
vars == <<allow_parallel_commands, is_command_active, current_task, stop_command,
          active_command_type, pc, cmd, ex, deleted, raised, late,
          bulk_arrived, basic_arrived, call>>

\* ------------------------------------------------------- pure helpers

\* An is_admin that does not know the userbot's own account.
is_admin_admins_only(user_id, admin_ids, bid) == user_id \in admin_ids

\* utils.is_admin
is_admin(user_id, admin_ids, bid) ==
    user_id \in admin_ids \/ (bid # None /\ user_id = bid)

\* An is_command_running that answers for the active command in both modes.
is_command_running_any_mode(command_type) == is_command_active

\* BotHandlers.is_command_running
is_command_running(command_type) ==
    IF ~is_command_active THEN FALSE
    ELSE IF ~allow_parallel_commands /\ command_type # None
            /\ active_command_type # command_type THEN FALSE
    ELSE IF ~allow_parallel_commands THEN TRUE
    ELSE FALSE


\* execute_tagging's filter of the enumeration: bots, deleted accounts and
\* the userbot itself are skipped.
RECURSIVE FilterMembers(_)
FilterMembers(us) ==
    IF us = << >> THEN << >>
    ELSE IF Head(us).bot \/ Head(us).deleted \/ Head(us).is_self
         THEN FilterMembers(Tail(us))
         ELSE <<Head(us)>> \o FilterMembers(Tail(us))

\* execute_tagging's mention of one user.
Mention(user) ==
    IF user.username # None THEN <<"@", user.username>>
    ELSE <<"[", (IF user.first_name # None THEN user.first_name ELSE "User"),
           "](tg://user?id=", user.id, ")">>

\* What the Executor hands to send_message: the chat, and for a spam run
\* the text, for a tagging run the mention of the target.
SpamMessage(c) == [chat |-> c.chat, text |-> c.text, mention |-> << >>]
TagTarget(c, user) == [chat |-> c.chat, text |-> NoText, mention |-> Mention(user)]
NoMessage == [chat |-> None, text |-> NoText, mention |-> << >>]

\* A message as get_reply_message() returns it; NoMsg is its None (also what
\* is left when the call raised).  "{mention}" is the placeholder token.
NoMsg == [id |-> None, text |-> NoText]
ReplyTexts == {NoText, <<"hi">>, <<"hi", "{mention}">>,
               <<"{mention}", "and", "{mention}">>}
ReplyMsgs == {NoMsg} \cup {[id |-> "m1", text |-> t] : t \in ReplyTexts}

\* handle_tagall's reply_message: the text of the replied-to message, empty
\* when there is none.
ReplyMessage(reply_msg) == reply_msg.text

\* str.replace("{mention}", mention)
RECURSIVE ReplaceMention(_, _)
ReplaceMention(text, mention) ==
    IF text = << >> THEN << >>
    ELSE (IF Head(text) = "{mention}" THEN mention ELSE <<Head(text)>>)
         \o ReplaceMention(Tail(text), mention)

\* "{mention}" in reply_message
HasPlaceholder(text) == \E k \in 1..Len(text) : text[k] = "{mention}"

\* A tag body that gives the argument priority over the placeholder.
TagBody_argument_first(is_reply, reply_msg, command_text, mention) ==
    IF is_reply /\ command_text # NoText
    THEN [text |-> command_text \o <<"\n">> \o mention, reply_to |-> reply_msg.id]
    ELSE IF HasPlaceholder(ReplyMessage(reply_msg))
    THEN [text |-> ReplaceMention(ReplyMessage(reply_msg), mention),
          reply_to |-> None]
    ELSE IF is_reply
    THEN [text |-> mention, reply_to |-> reply_msg.id]
    ELSE IF command_text # NoText
    THEN [text |-> command_text \o <<"\n">> \o mention, reply_to |-> None]
    ELSE [text |-> mention, reply_to |-> None]

\* execute_tagging's five cases: the text it sends for a target and the
\* message the send replies to (None: a normal message).
TagBody(is_reply, reply_msg, command_text, mention) ==
    IF ReplyMessage(reply_msg) # NoText
       /\ HasPlaceholder(ReplyMessage(reply_msg))
    THEN [text |-> ReplaceMention(ReplyMessage(reply_msg), mention),
          reply_to |-> None]
    ELSE IF is_reply /\ command_text # NoText
    THEN [text |-> command_text \o <<"\n">> \o mention, reply_to |-> reply_msg.id]
    ELSE IF is_reply
    THEN [text |-> mention, reply_to |-> reply_msg.id]
    ELSE IF command_text # NoText
    THEN [text |-> command_text \o <<"\n">> \o mention, reply_to |-> None]
    ELSE [text |-> mention, reply_to |-> None]

\* No helper has been called on its own.
NoCall == [fn |-> None, user_id |-> None, admin_ids |-> {}, bot_id |-> None,
           result |-> FALSE, is_reply |-> FALSE, reply_msg |-> NoMsg,
           command_text |-> NoText, mention |-> << >>,
           sent |-> [text |-> << >>, reply_to |-> None],
           spam_count |-> << >>, default_spam_count |-> 0,
           max_spam_count |-> 0, refused |-> FALSE, count |-> 0]

\* ---------------------------------------------------------------- state

\* The fields of the event a handler has read so far.
NoCmd == [word |-> None, sender |-> None, chat |-> None, spam_count |-> << >>,
          text |-> NoText]

\* An Executor task: epc is its position ("none": not created; "start":
\* created by asyncio.create_task, not yet run; "enum", "send", "sleep": in
\* that await; "done": returned; "joined": returned and awaited by its
\* handler, which has returned too), participants, i, sent_count (tagged_count
\* in execute_tagging), cooldown and wait_time its locals, n the length of
\* its target sequence.  started counts the send_message calls it made,
\* failed those that raised, msg is the message of the latest call, exit
\* names the return it took; stop_seen records that a stop command set
\* stop_command after the command was admitted, cancelled that one did
\* while the Executor was suspended in one of its awaits.
NoExec == [epc |-> "none", kind |-> None, participants |-> << >>, n |-> 0,
           i |-> 0, sent_count |-> 0, started |-> 0, failed |-> 0,
           cooldown |-> 0, wait_time |-> 0, msg |-> NoMessage,
           exit |-> None, stop_seen |-> FALSE, cancelled |-> FALSE]

Running(e) == e.epc \in {"start", "enum", "send", "sleep"}

\* The Executor task has run its first step and is suspended in an await.
Suspended(e) == e.epc \in {"enum", "send", "sleep"}

Init ==
    /\ allow_parallel_commands \in BOOLEAN
    /\ is_command_active = FALSE
    /\ current_task = {}
    /\ stop_command = FALSE
    /\ active_command_type = None
    /\ pc = [h \in H |-> "new"]
    /\ cmd = [h \in H |-> NoCmd]
    /\ ex = [h \in H |-> NoExec]
    /\ deleted = {}
    /\ raised = {}
    /\ late = {}
    /\ bulk_arrived = 0
    /\ basic_arrived = 0
    /\ call = NoCall

\* --------------------------------------------------------- scheduling
\* asyncio runs ready callbacks in FIFO order.  The first step of a task
\* made by create_task and the wake-up of a handler awaiting a finished
\* task are ready callbacks: an await that a coroutine begins while such a
\* callback is queued cannot complete before the callback has run.
\* late holds the coroutines in that position.
ReadyCallback(p, e) ==
    \E g \in H : p[g] = "await_task" /\ e[g].epc \in {"start", "done"}

Sched(h) == late' = IF ReadyCallback(pc', ex') THEN late \cup {h} ELSE {}

\* ------------------------------------------------------------ controller

\* A reset_command_state that resets nothing in either mode.
reset_command_state_noop == UNCHANGED ctl

\* A reset_command_state that leaves stop_command as it is.
reset_command_state_keeps_stop ==
    IF ~allow_parallel_commands
    THEN /\ is_command_active' = FALSE
         /\ active_command_type' = None
         /\ current_task' = {}
         /\ UNCHANGED stop_command
    ELSE UNCHANGED ctl

\* A reset_command_state that toggles stop_command instead of clearing it.
reset_command_state_toggle ==
    IF ~allow_parallel_commands
    THEN /\ is_command_active' = FALSE
         /\ stop_command' = ~stop_command
         /\ active_command_type' = None
         /\ current_task' = {}
    ELSE UNCHANGED ctl

\* BotHandlers.reset_command_state
reset_command_state ==
    IF ~allow_parallel_commands
    THEN /\ is_command_active' = FALSE
         /\ stop_command' = FALSE
         /\ active_command_type' = None
         /\ current_task' = {}
    ELSE UNCHANGED ctl

\* A "Set command as active" that leaves stop_command as it is.
SetActive_keeps_stop(kind) ==
    /\ is_command_active' = TRUE
    /\ UNCHANGED stop_command
    /\ active_command_type' = kind

\* A "Set command as active" that leaves active_command_type as it is.
SetActive_keeps_type(kind) ==
    /\ is_command_active' = TRUE
    /\ stop_command' = FALSE
    /\ UNCHANGED active_command_type

\* "Set command as active" in handle_tagall and handle_spam.
SetActive(kind) ==
    /\ is_command_active' = TRUE
    /\ stop_command' = FALSE
    /\ active_command_type' = kind

\* asyncio.create_task(self.execute_...(...)) followed by await self.current_task
CreateTask(h, c, kind) ==
    /\ current_task' = {h}
    /\ ex' = [ex EXCEPT ![h] = [NoExec EXCEPT !.epc = "start", !.kind = kind,
                                               !.stop_seen = ex[h].stop_seen]]
    /\ cmd' = [cmd EXCEPT ![h] = c]
    /\ pc' = [pc EXCEPT ![h] = "await_task"]



\* ------------------------------------------------------------- handlers

\* The registered patterns of register_handlers: which handler a command
\* word is routed to.
Route(word) ==
    CASE word = "/ping" -> "handle_ping"
      [] word = "/id" -> "handle_id"
      [] word = "/stats" -> "handle_stats"
      [] word = "/tagall" -> "handle_tagall"
      [] word = "/spam" -> "handle_spam"
      [] word \in {"/stoptag", "/stopspam"} -> "handle_stop_command"

\* Commands arrive in the order of their numbers.
Arrives(h) == pc[h] = "new" /\ (IF h = 1 THEN TRUE ELSE pc[h - 1] # "new")

\* A bulk command arrives, while the bound on their number allows.
BulkArrives(h) ==
    /\ Arrives(h)
    /\ bulk_arrived < MaxBulk
    /\ bulk_arrived + basic_arrived < MaxWork
    /\ bulk_arrived' = bulk_arrived + 1
    /\ UNCHANGED <<basic_arrived, call>>

\* A handler returns (or an exception leaves it): its frame and the event it
\* was called with are gone.
Return(h) ==
    /\ pc' = [pc EXCEPT ![h] = "done"]
    /\ cmd' = [cmd EXCEPT ![h] = NoCmd]

\* handle_tagall up to its first await: the permission check, the group
\* check and the check for an active command, each followed by
\* event.delete().
TagallArrive(h) ==
    /\ BulkArrives(h)
    /\ \E sender \in Senders, chat \in Chats :
         LET auth == is_admin(sender, ADMIN_IDS, bot_id) IN
         /\ cmd' = [cmd EXCEPT ![h] = [NoCmd EXCEPT !.word = "/tagall",
                        !.sender = sender,
                        !.chat = IF auth THEN chat ELSE None]]
         /\ pc' = [pc EXCEPT ![h] =
                IF ~auth THEN "del_unauth"
                ELSE IF ~is_group(chat) THEN "del_nogroup"
                ELSE IF ~allow_parallel_commands /\ is_command_running(None)
                     THEN "del_busy"
                ELSE "del_admit"]
    /\ UNCHANGED <<allow_parallel_commands, ctl, ex, deleted, raised>>
    /\ Sched(h)

\* handle_spam up to its first await.
SpamArrive(h) ==
    /\ BulkArrives(h)
    /\ \E sender \in Senders :
         LET auth == is_admin(sender, ADMIN_IDS, bot_id) IN
         /\ cmd' = [cmd EXCEPT ![h] = [NoCmd EXCEPT !.word = "/spam",
                        !.sender = sender]]
         /\ pc' = [pc EXCEPT ![h] =
                IF ~auth THEN "del_unauth"
                ELSE IF ~allow_parallel_commands /\ is_command_running(None)
                     THEN "del_busy"
                ELSE "del_admit"]
    /\ UNCHANGED <<allow_parallel_commands, ctl, ex, deleted, raised>>
    /\ Sched(h)

\* A handler returns at its permission check without awaiting anything.
\* (What was ignored is kept.)
Ignore(h, c) ==
    /\ pc' = [pc EXCEPT ![h] = "done"]
    /\ cmd' = [cmd EXCEPT ![h] = c]

\* handle_ping, handle_id and handle_stats up to their first await: an
\* admin's command goes to event.delete(), anybody else's is ignored.
BasicArrive(h) ==
    /\ Arrives(h)
    /\ basic_arrived < MaxBasic
    /\ bulk_arrived + basic_arrived < MaxWork
    /\ basic_arrived' = basic_arrived + 1
    /\ \E sender \in Senders, word \in {"/ping", "/id", "/stats"} :
         LET c == [NoCmd EXCEPT !.word = word, !.sender = sender] IN
         IF ~is_admin(sender, ADMIN_IDS, bot_id) THEN Ignore(h, c)
         ELSE /\ cmd' = [cmd EXCEPT ![h] = c]
              /\ pc' = [pc EXCEPT ![h] = IF Route(word) = "handle_stats"
                                         THEN "stats_del" ELSE "basic_del"]
    /\ UNCHANGED <<allow_parallel_commands, bulk_arrived, call, ctl, ex,
                   deleted, raised>>
    /\ Sched(h)

\* The end of the event.delete() of handle_ping / handle_id: the handler
\* returns, or the exception leaves the handler (it has no try block).
BasicDeleteDone(h) ==
    /\ pc[h] = "basic_del"
    /\ h \notin late
    /\ \E ok \in BOOLEAN :
         /\ deleted' = IF ok THEN deleted \cup {h} ELSE deleted
         /\ raised' = IF ok THEN raised ELSE raised \cup {h}
    /\ Return(h)
    /\ UNCHANGED <<cfg, ctl, ex>>
    /\ Sched(h)

\* The end of the event.delete() of handle_stats: the handler goes on to
\* count the participants, or the exception is caught and logged.
StatsDeleteDone(h) ==
    /\ pc[h] = "stats_del"
    /\ h \notin late
    /\ \/ /\ deleted' = deleted \cup {h}
          /\ pc' = [pc EXCEPT ![h] = "stats_enum"]
          /\ UNCHANGED cmd
       \/ /\ Return(h)
          /\ UNCHANGED deleted
    /\ UNCHANGED <<cfg, ctl, ex, raised>>
    /\ Sched(h)

\* The end of handle_stats's iter_participants: the counts are logged, or
\* the exception is caught and logged; either way the handler returns.
StatsEnumDone(h) ==
    /\ pc[h] = "stats_enum"
    /\ h \notin late
    /\ Return(h)
    /\ UNCHANGED <<cfg, ctl, ex, deleted, raised>>
    /\ Sched(h)

\* A bulk command that has been admitted: its handler has set
\* is_command_active and has not returned.
Admitted(h) == pc[h] \in {"get_reply", "await_task"}

\* A handle_stop_command without its check for an active command.
NothingToStop_never == FALSE

\* handle_stop_command's "if not self.is_command_active".
NothingToStop == ~is_command_active

\* A handle_stop_command that logs the stop without setting the flag.
RequestStop_noflag == UNCHANGED <<ctl, ex>>

\* "self.stop_command = True" in handle_stop_command.
RequestStop ==
    /\ stop_command' = TRUE
    /\ ex' = [g \in H |->
                [ex[g] EXCEPT
                   !.cancelled = ex[g].cancelled \/ Suspended(ex[g]),
                   !.stop_seen = ex[g].stop_seen
                                 \/ (Admitted(g) /\ ex[g].epc # "done")]]
    /\ UNCHANGED <<is_command_active, current_task, active_command_type>>

\* handle_stop_command up to its await of event.delete().
StopArrive(h) ==
    /\ Arrives(h)
    /\ \E sender \in Senders, word \in {"/stoptag", "/stopspam"} :
         LET auth == is_admin(sender, ADMIN_IDS, bot_id) IN
         /\ Route(word) = "handle_stop_command"
         /\ cmd' = [cmd EXCEPT ![h] = [NoCmd EXCEPT !.word = word,
                        !.sender = sender]]
         /\ IF ~auth
            THEN /\ pc' = [pc EXCEPT ![h] = "stop_del_unauth"]
                 /\ UNCHANGED <<ctl, ex>>
            ELSE IF NothingToStop
            THEN /\ pc' = [pc EXCEPT ![h] = "stop_del_idle"]
                 /\ UNCHANGED <<ctl, ex>>
            ELSE /\ pc' = [pc EXCEPT ![h] = "stop_del_set"]
                 /\ RequestStop
    /\ UNCHANGED <<cfg, deleted, raised>>
    /\ Sched(h)

\* The end of handle_stop_command's event.delete(): the handler returns,
\* or the exception leaves the handler (it has no try block).
StopDeleteDone(h) ==
    /\ pc[h] \in {"stop_del_unauth", "stop_del_idle", "stop_del_set"}
    /\ h \notin late
    /\ \E ok \in BOOLEAN :
         /\ deleted' = IF ok THEN deleted \cup {h} ELSE deleted
         /\ raised' = IF ok THEN raised ELSE raised \cup {h}
    /\ Return(h)
    /\ UNCHANGED <<cfg, ctl, ex>>
    /\ Sched(h)

\* The end of the event.delete() of a bulk command that is not admitted
\* (not an admin, not a group, another command active): the handler
\* returns, or the exception reaches the handler's except block, which
\* calls reset_command_state().
RejectDeleteDone(h) ==
    /\ pc[h] \in {"del_unauth", "del_nogroup", "del_busy"}
    /\ h \notin late
    /\ \/ /\ deleted' = deleted \cup {h}
          /\ UNCHANGED ctl
       \/ /\ reset_command_state
          /\ UNCHANGED deleted
    /\ Return(h)
    /\ UNCHANGED <<cfg, ex, raised>>
    /\ Sched(h)

\* The end of the "Delete command" event.delete() of handle_tagall, then
\* the handler up to its next await: the command becomes active and the
\* handler either awaits get_reply_message() (the command is a reply) or
\* creates the Executor task and awaits it.
TagallDeleteDone(h) ==
    /\ pc[h] = "del_admit" /\ Route(cmd[h].word) = "handle_tagall"
    /\ h \notin late
    /\ \/ /\ reset_command_state
          /\ Return(h)
          /\ UNCHANGED <<ex, deleted>>
       \/ /\ deleted' = deleted \cup {h}
          /\ SetActive("tagging")
          /\ \E is_reply \in BOOLEAN :
               IF is_reply
               THEN /\ pc' = [pc EXCEPT ![h] = "get_reply"]
                    /\ UNCHANGED <<cmd, ex, current_task>>
               ELSE CreateTask(h, cmd[h], "tagging")
    /\ UNCHANGED <<cfg, raised>>
    /\ Sched(h)

\* int(spam_count) of a count the pattern matched.
ParseCount(spam_count) == spam_count[1]

\* A handle_spam without its test against MAX_SPAM_COUNT.
OverMax_never(spam_count) == FALSE

\* handle_spam's "Set count" for a deployment configured with
\* default_spam_count and max_spam_count: a count the command carries is
\* refused when it is over the maximum, a command without a count gets the
\* default.
SetCount(spam_count, default_spam_count, max_spam_count) ==
    IF spam_count # << >>
    THEN [refused |-> ParseCount(spam_count) > max_spam_count,
          count |-> ParseCount(spam_count)]
    ELSE [refused |-> FALSE, count |-> default_spam_count]

\* handle_spam's test of a count against MAX_SPAM_COUNT.
OverMax(spam_count) ==
    SetCount(spam_count, DefaultSpamCount, MaxSpamCount).refused

\* handle_spam returns without running the command: the count is over the
\* maximum or the text is empty.  (What was refused is kept.)
Refuse(h, c) ==
    /\ pc' = [pc EXCEPT ![h] = "done"]
    /\ cmd' = [cmd EXCEPT ![h] = [c EXCEPT !.sender = None]]
    /\ UNCHANGED <<ctl, ex>>

\* The counts a /spam command can carry: none, or digits.
SpamCounts == {<< >>} \cup {<<k>> : k \in 0..(MaxSpamCount + 1)}

\* The end of the "Delete command" event.delete() of handle_spam, then the
\* handler up to its next await: the count and the text are parsed, a
\* count over the maximum or an empty text ends the handler, otherwise the
\* command becomes active.
SpamDeleteDone(h) ==
    /\ pc[h] = "del_admit" /\ Route(cmd[h].word) = "handle_spam"
    /\ h \notin late
    /\ \/ /\ reset_command_state
          /\ Return(h)
          /\ UNCHANGED <<ex, deleted>>
       \/ /\ deleted' = deleted \cup {h}
          /\ \E spam_count \in SpamCounts, spam_text \in ArgTexts :
               LET c == [cmd[h] EXCEPT !.spam_count = spam_count,
                                       !.text = spam_text] IN
               IF OverMax(spam_count) THEN Refuse(h, c)
               ELSE IF spam_text = NoText THEN Refuse(h, c)
               ELSE /\ SetActive("spam")
                    /\ \E chat \in SpamChats, is_reply \in BOOLEAN :
                         LET d == [c EXCEPT !.chat = chat] IN
                         IF is_reply
                         THEN /\ cmd' = [cmd EXCEPT ![h] = d]
                              /\ pc' = [pc EXCEPT ![h] = "get_reply"]
                              /\ UNCHANGED <<ex, current_task>>
                         ELSE CreateTask(h, d, "spam")
    /\ UNCHANGED <<cfg, raised>>
    /\ Sched(h)

\* The end of get_reply_message() in handle_tagall and handle_spam (its
\* exception is caught and logged), then the creation of the Executor task.
GetReplyDone(h) ==
    /\ pc[h] = "get_reply"
    /\ h \notin late
    /\ CreateTask(h, cmd[h],
                  IF Route(cmd[h].word) = "handle_tagall" THEN "tagging"
                  ELSE "spam")
    /\ UNCHANGED <<cfg, is_command_active, stop_command,
                   active_command_type, deleted, raised>>
    /\ Sched(h)

\* The handler's await of its task ends: the finally block of
\* handle_tagall / handle_spam calls reset_command_state().
HandlerWake(h) ==
    /\ pc[h] = "await_task" /\ ex[h].epc = "done"
    /\ reset_command_state
    /\ Return(h)
    /\ ex' = [ex EXCEPT ![h] = [NoExec EXCEPT !.epc = "joined"]]
    /\ UNCHANGED <<cfg, deleted, raised>>
    /\ Sched(h)

\* ------------------------------------------------------------- executors

\* An Executor returns: its finally block calls reset_command_state().
\* Its locals are gone; the counts of what it did are kept until the
\* handler that awaits it has run.
Finish(h, e, why) ==
    /\ ex' = [ex EXCEPT ![h] = [NoExec EXCEPT
                  !.epc = "done", !.exit = why, !.kind = e.kind, !.n = e.n,
                  !.sent_count = e.sent_count, !.started = e.started,
                  !.failed = e.failed, !.stop_seen = e.stop_seen]]
    /\ reset_command_state

\* An Executor that walks its targets from the last to the first.
MessageFor_reversed(c, e) ==
    IF e.kind = "tagging" THEN TagTarget(c, e.participants[e.n - e.i])
    ELSE SpamMessage(c)

\* The message the Executor sends for its i-th target (i from 0).
MessageFor(c, e) ==
    IF e.kind = "tagging" THEN TagTarget(c, e.participants[e.i + 1])
    ELSE SpamMessage(c)

\* The top of the target loop of execute_tagging / execute_spam for the
\* locals e: the loop ends when the targets are exhausted, the run stops
\* when stop_command is set, otherwise the next send_message is awaited.
LoopTop(h, e) ==
    IF e.i >= e.n THEN Finish(h, e, "exhausted")
    ELSE IF stop_command THEN Finish(h, e, "cancel_loop")
    ELSE /\ ex' = [ex EXCEPT ![h] = [e EXCEPT !.epc = "send",
                                              !.started = e.started + 1,
                                              !.msg = MessageFor(cmd[h], e)]]
         /\ UNCHANGED ctl

\* utils.random_delay from its call to its first await, for the drawn
\* cooldown (in sleep increments): the stop flag is polled before the
\* first sleep.
PacerStart(h, e, cooldown) ==
    IF stop_command THEN Finish(h, e, "cancel_pacer")
    ELSE /\ ex' = [ex EXCEPT ![h] = [e EXCEPT !.epc = "sleep",
                                              !.cooldown = cooldown,
                                              !.wait_time = 0]]
         /\ UNCHANGED ctl

\* A handle_spam that ignores the count of the command.
SpamCount_default(c) == DefaultSpamCount

\* The count handle_spam calls execute_spam with.
SpamCount(c) == SetCount(c.spam_count, DefaultSpamCount, MaxSpamCount).count

\* The first step of the Executor task: execute_tagging starts the
\* enumeration of the participants, execute_spam enters its loop.
ExecStart(h) ==
    /\ pc[h] = "await_task" /\ ex[h].epc = "start"
    /\ IF ex[h].kind = "tagging"
       THEN /\ ex' = [ex EXCEPT ![h].epc = "enum"]
            /\ UNCHANGED ctl
       ELSE LoopTop(h, [ex[h] EXCEPT !.n = SpamCount(cmd[h])])
    /\ UNCHANGED <<cfg, pc, cmd, deleted, raised>>
    /\ Sched(h)

\* The end of iter_participants (one request returns the members of a
\* small group): it raises, or the loop over the members runs; that loop
\* returns at its first member when stop_command is set; no member left
\* after the filter ends the run; otherwise the target loop starts.
EnumDone(h) ==
    /\ ex[h].epc = "enum"
    /\ h \notin late
    /\ \/ Finish(h, ex[h], "enum_fail")
       \/ \E members \in Enumerations :
            IF stop_command
            THEN Finish(h, ex[h], "cancel_enum")
            ELSE IF FilterMembers(members) = << >>
            THEN Finish(h, ex[h], "no_targets")
            ELSE LoopTop(h, [ex[h] EXCEPT
                               !.participants = FilterMembers(members),
                               !.n = Len(FilterMembers(members))])
    /\ UNCHANGED <<cfg, pc, cmd, deleted, raised>>
    /\ Sched(h)

\* send_message returned: the count of sent messages goes up and the
\* Pacer starts.
SendReturned(h, cooldown) ==
    PacerStart(h, [ex[h] EXCEPT !.sent_count = ex[h].sent_count + 1], cooldown)

\* A loop without the except block in its body: the first send_message
\* that raises ends the run through the outer except block.
SendRaised_abort(h) ==
    Finish(h, [ex[h] EXCEPT !.failed = ex[h].failed + 1], "send_error")

\* send_message raised: the except block of the loop body logs the error
\* and continues with the next target.
SendRaised(h) ==
    LoopTop(h, [ex[h] EXCEPT !.i = ex[h].i + 1, !.failed = ex[h].failed + 1])

\* The end of send_message.
SendDone(h) ==
    /\ ex[h].epc = "send"
    /\ h \notin late
    /\ \/ \E cooldown \in 1..MaxTicks : SendReturned(h, cooldown)
       \/ SendRaised(h)
    /\ UNCHANGED <<cfg, pc, cmd, deleted, raised>>
    /\ Sched(h)

\* The end of one asyncio.sleep(0.1) of random_delay: the wait goes on
\* (after a poll of the stop flag) or random_delay returns True and the
\* loop goes to its next target.
SleepDone(h) ==
    /\ ex[h].epc = "sleep"
    /\ h \notin late
    /\ LET e == [ex[h] EXCEPT !.wait_time = ex[h].wait_time + 1] IN
         IF e.wait_time < e.cooldown
         THEN IF stop_command THEN Finish(h, e, "cancel_pacer")
              ELSE /\ ex' = [ex EXCEPT ![h] = e]
                   /\ UNCHANGED ctl
         ELSE LoopTop(h, [e EXCEPT !.i = e.i + 1])
    /\ UNCHANGED <<cfg, pc, cmd, deleted, raised>>
    /\ Sched(h)

\* ------------------------------------------------------- specification

\* A command arrives: the dispatcher calls the handler its word is routed to.
Arrive(h) ==
    \/ BasicArrive(h)
    \/ TagallArrive(h)
    \/ SpamArrive(h)
    \/ StopArrive(h)

\* A coroutine that was called goes on: an awaited call ends, or a ready
\* callback runs.
Progress(h) ==
    \/ BasicDeleteDone(h)
    \/ StatsDeleteDone(h)
    \/ StatsEnumDone(h)
    \/ StopDeleteDone(h)
    \/ RejectDeleteDone(h)
    \/ TagallDeleteDone(h)
    \/ SpamDeleteDone(h)
    \/ GetReplyDone(h)
    \/ HandlerWake(h)
    \/ ExecStart(h)
    \/ EnumDone(h)
    \/ SendDone(h)
    \/ SleepDone(h)

Next == \E h \in H : Arrive(h) \/ Progress(h)

Spec == Init /\ [][Next]_vars

\* The helpers on their own: is_admin for every user id, admin list and
\* bot_id, and the tag body for every kind of /tagall.
Accounts == {AdminUser, SelfUser, OtherUser}

CallIsAdmin ==
    /\ \E user_id \in Accounts, admin_ids \in SUBSET Accounts,
          bid \in Accounts \cup {None} :
         call' = [NoCall EXCEPT !.fn = "is_admin", !.user_id = user_id,
                     !.admin_ids = admin_ids, !.bot_id = bid,
                     !.result = is_admin(user_id, admin_ids, bid)]
    /\ UNCHANGED <<allow_parallel_commands, bulk_arrived, basic_arrived, ctl,
                   pc, cmd, ex, deleted, raised, late>>

\* execute_tagging's message for one target of a /tagall: the command is
\* a reply or not, the replied-to message was fetched or not, an argument
\* was given or not, the target has a username or not.
CallTagBody ==
    /\ \E is_reply \in BOOLEAN, reply_msg \in ReplyMsgs,
          command_text \in ArgTexts, members \in Enumerations,
          k \in 1..2 :
         /\ ~is_reply => reply_msg = NoMsg
         /\ k <= Len(FilterMembers(members))
         /\ LET mention == Mention(FilterMembers(members)[k]) IN
              call' = [NoCall EXCEPT !.fn = "tag_body",
                          !.is_reply = is_reply, !.reply_msg = reply_msg,
                          !.command_text = command_text,
                          !.mention = mention,
                          !.sent = TagBody(is_reply, reply_msg, command_text,
                                           mention)]
    /\ UNCHANGED <<allow_parallel_commands, bulk_arrived, basic_arrived, ctl,
                   pc, cmd, ex, deleted, raised, late>>

\* validate_config's limit on MAX_SPAM_COUNT.
MAX_SPAM_LIMIT == 5000

\* validate_config reports no error about the spam settings.
validate_config(default_spam_count, max_spam_count) ==
    ~(max_spam_count > MAX_SPAM_LIMIT)

\* The spam settings a deployment can be configured with: small values and
\* values around validate_config's limit.
SpamSettings == (0..(MaxSpamCount + 1))
                \cup {MAX_SPAM_LIMIT, MAX_SPAM_LIMIT + 1}

\* handle_spam's count for one /spam command, in a deployment whose
\* settings validate_config accepts; execute_spam's loop makes that many
\* attempts.
CallSetCount ==
    /\ \E default_spam_count \in SpamSettings,
          max_spam_count \in SpamSettings, spam_count \in SpamCounts :
         /\ validate_config(default_spam_count, max_spam_count)
         /\ LET r == SetCount(spam_count, default_spam_count,
                              max_spam_count) IN
              call' = [NoCall EXCEPT !.fn = "set_count",
                          !.spam_count = spam_count,
                          !.default_spam_count = default_spam_count,
                          !.max_spam_count = max_spam_count,
                          !.refused = r.refused, !.count = r.count]
    /\ UNCHANGED <<allow_parallel_commands, bulk_arrived, basic_arrived, ctl,
                   pc, cmd, ex, deleted, raised, late>>

HelperNext == CallIsAdmin \/ CallTagBody \/ CallSetCount

HelperSpec == Init /\ [][HelperNext]_vars

\* The runs of a deployment in non-parallel mode that has already handled
\* one command (a stop command from a stranger), under a fair scheduler:
\* every awaited network call returns or raises, every sleep ends, every
\* ready callback runs.  Commands need not arrive.
FairInit ==
    /\ allow_parallel_commands = FALSE
    /\ is_command_active = FALSE
    /\ current_task = {}
    /\ stop_command = FALSE
    /\ active_command_type = None
    /\ pc = [h \in H |-> IF h = NumCmds THEN "done" ELSE "new"]
    /\ cmd = [h \in H |-> NoCmd]
    /\ ex = [h \in H |-> NoExec]
    /\ deleted = {NumCmds}
    /\ raised = {}
    /\ late = {}
    /\ bulk_arrived = 0
    /\ basic_arrived = 0
    /\ call = NoCall

FairSpec == FairInit /\ [][Next]_vars /\ \A h \in H : WF_vars(Progress(h))

\* --------------------------------------------------------------- claims

Idle ==
    /\ ~is_command_active
    /\ active_command_type = None
    /\ ~stop_command
    /\ current_task = {}

RunningExecutors == {h \in H : Running(ex[h])}

BulkWords == {"/tagall", "/spam"}
StopWords == {"/stoptag", "/stopspam"}

\* The event c was sent by an admin or by the userbot's own account.
Authorized(c) == c.sender \in ADMIN_IDS \/ c.sender = bot_id
\* The event c was sent by somebody else.
Stranger(c) == c.sender # None /\ ~Authorized(c)

\* The count a /spam command asks for: its count, or the default.
Requested(c) ==
    IF c.spam_count = << >> THEN DefaultSpamCount ELSE c.spam_count[1]

\* C1: in non-parallel mode at most one bulk Executor (execute_tagging or
\* execute_spam) is running at any time, for every interleaving of the
\* handlers at their awaits.
C1_AtMostOneExecutor ==
    ~allow_parallel_commands => Cardinality(RunningExecutors) <= 1

\* C2: in non-parallel mode an authorized /tagall (in a group) or /spam that
\* arrives while a command is active is rejected: the handler goes to
\* delete the command message and returns, it starts no Executor, and none
\* of its steps changes the controller's state.
C2_BusyRejected ==
    [][\A h \in H :
         /\ (/\ ~allow_parallel_commands /\ is_command_active
             /\ pc[h] = "new" /\ cmd'[h].word \in BulkWords
             /\ Authorized(cmd'[h])
             /\ (cmd'[h].word = "/tagall" => is_group(cmd'[h].chat)))
            => (pc'[h] = "del_busy" /\ ex' = ex /\ UNCHANGED ctl)
         /\ (pc[h] = "del_busy" /\ pc'[h] # "del_busy")
            => (pc'[h] = "done" /\ ex' = ex /\ UNCHANGED ctl)]_vars

\* C3: in non-parallel mode, once a stop command has set stop_command while
\* an Executor is running, that Executor makes no further send_message
\* call.
C3_NoSendAfterStop ==
    [][\A h \in H :
         (~allow_parallel_commands /\ ex[h].cancelled)
         => ex'[h].started = ex[h].started]_vars

\* C4: in non-parallel mode every admitted bulk operation eventually leaves
\* the controller Idle, whichever way its Executor exits.
C4_EventuallyIdle ==
    \A h \in H : (~allow_parallel_commands /\ Admitted(h)) ~> Idle

\* An admitted run that a stop command cancelled in its Pacer wait has
\* ended and left the controller Idle.
C4_Witness ==
    \E h \in H : /\ pc[h] = "await_task" /\ ex[h].epc = "done"
                 /\ ex[h].exit = "cancel_pacer" /\ ex[h].sent_count >= 1
                 /\ Idle

\* C5: a /tagall, /spam, /stoptag or /stopspam from a sender who is not an
\* admin only goes to delete the command message and returns: none of the
\* handler's steps starts an Executor, sends a message or changes the
\* controller's state.
C5_UnauthorizedNoEffect ==
    [][\A h \in H :
         (pc'[h] # pc[h] /\ (Stranger(cmd[h]) \/ Stranger(cmd'[h])))
         => /\ pc'[h] \in {"del_unauth", "stop_del_unauth", "done"}
            /\ ex' = ex
            /\ UNCHANGED ctl]_vars

\* C6: an authorized /stoptag or /stopspam that arrives while a command is
\* active sets stop_command, whatever the kind of the running operation and
\* whichever of the two words was used; no step of the handler changes
\* is_command_active or active_command_type.
C6_StopSetsFlag ==
    [][\A h \in H :
         /\ (/\ pc[h] = "new" /\ cmd'[h].word \in StopWords
             /\ Authorized(cmd'[h]) /\ is_command_active)
            => /\ pc'[h] = "stop_del_set"
               /\ stop_command'
               /\ UNCHANGED <<is_command_active, active_command_type>>
         /\ (pc[h] = "stop_del_set" /\ pc'[h] # pc[h])
            => UNCHANGED <<is_command_active, active_command_type,
                           stop_command>>]_vars

\* A /stoptag has set stop_command while a spam run is sending.
C6_Witness ==
    \E h, g \in H : /\ pc[h] = "stop_del_set" /\ cmd[h].word = "/stoptag"
                    /\ active_command_type = "spam" /\ stop_command
                    /\ ex[g].kind = "spam" /\ ex[g].epc = "send"

\* C7: an authorized stop command that arrives while no command is active
\* is a no-op: its check raises nothing and no step of the handler changes
\* the controller's state or any Executor; stop_command is never set while
\* no command is active, so an operation admitted afterwards starts with
\* stop_command unset.
C7_StopWhileIdleNoOp ==
    /\ [](~is_command_active => ~stop_command)
    /\ [][\A h \in H :
            /\ (/\ pc[h] = "new" /\ cmd'[h].word \in StopWords
                /\ Authorized(cmd'[h]) /\ ~is_command_active)
               => /\ pc'[h] = "stop_del_idle"
                  /\ raised' = raised
                  /\ ex' = ex
                  /\ UNCHANGED ctl
            /\ (pc[h] = "stop_del_idle" /\ pc'[h] # pc[h])
               => (ex' = ex /\ UNCHANGED ctl)]_vars

\* A bulk command that arrived after a stop command found nothing to stop
\* is sending, and stop_command is unset.
C7_Witness ==
    \E h, g \in H : /\ pc[h] = "stop_del_idle" /\ h < g
                    /\ ex[g].epc = "send" /\ ~ex[g].stop_seen
                    /\ ~stop_command

\* C8: a /spam whose count is over MAX_SPAM_COUNT is refused: its handler
\* returns with no Executor and without changing the controller's state;
\* a /spam that runs was not over the maximum and runs with the count it
\* asked for (never a clamped one), the default when it gave none.
C8_OverMaxRefused ==
    /\ [](\A h \in H :
            /\ (/\ cmd[h].spam_count # << >>
                /\ cmd[h].spam_count[1] > MaxSpamCount)
               => (pc[h] = "done" /\ ex[h] = NoExec)
            /\ (ex[h].kind = "spam" /\ ex[h].epc \in {"send", "sleep", "done"})
               => ex[h].n = Requested(cmd[h]))
    /\ [][\A h \in H :
            (/\ pc[h] = "del_admit" /\ cmd'[h].spam_count # << >>
             /\ cmd'[h].spam_count[1] > MaxSpamCount)
            => (ex' = ex /\ UNCHANGED ctl)]_vars

\* A /spam over the maximum has been refused after its message was deleted,
\* and a /spam without a count is sending with the default count.
C8_Witness ==
    \E h, g \in H : /\ pc[h] = "done" /\ h \in deleted
                    /\ cmd[h].spam_count = <<MaxSpamCount + 1>>
                    /\ cmd[h].text # NoText
                    /\ ex[g].epc = "send" /\ ex[g].kind = "spam"
                    /\ cmd[g].spam_count = << >>
                    /\ ex[g].n = DefaultSpamCount

\* The step in which the spam run of h ends with no stop command since its
\* admission and no failed send.
CleanSpamEnd(h) ==
    /\ ex[h].epc # "done" /\ ex'[h].epc = "done"
    /\ ex'[h].kind = "spam"
    /\ ~ex'[h].stop_seen /\ ex'[h].failed = 0

C10_SendFailureContinues ==
    /\ [](\A h \in H : /\ ex[h].sent_count + ex[h].failed <= ex[h].started
                       /\ ex[h].started <= ex[h].n)
    /\ [][\A h \in H :
            (ex'[h].failed = ex[h].failed + 1)
            => /\ ex'[h].sent_count = ex[h].sent_count
               /\ raised' = raised
               /\ pc' = pc
               /\ IF ex[h].i + 1 < ex[h].n /\ ~stop_command
                  THEN /\ ex'[h].epc = "send"
                       /\ ex'[h].i = ex[h].i + 1
                       /\ ex'[h].started = ex[h].started + 1
                  ELSE /\ ex'[h].epc = "done"
                       /\ ex'[h].exit = IF ex[h].i + 1 < ex[h].n
                                        THEN "cancel_loop"
                                        ELSE "exhausted"]_vars

\* A run whose first send failed has gone on to its second target, with no
\* message counted.
C10_Witness ==
    \E h \in H : /\ ex[h].epc = "send" /\ ex[h].i = 1
                 /\ ex[h].started = 2 /\ ex[h].failed = 1
                 /\ ex[h].sent_count = 0

\* C11: every privileged handler (/ping, /id, /stats, /tagall, /spam,
\* /stoptag, /stopspam) checks the sender before any side effect, and for a
\* sender who is not an admin it still goes to delete the command message:
\* the first step of such a handler changes nothing and ends in the await
\* of event.delete().
C11_CheckThenDelete ==
    [][\A h \in H :
         (pc[h] = "new" /\ pc'[h] # "new" /\ Stranger(cmd'[h]))
         => /\ pc'[h] \in {"del_unauth", "stop_del_unauth"}
            /\ ex' = ex
            /\ deleted' = deleted
            /\ UNCHANGED ctl]_vars

\* The step in which one asyncio.sleep(0.1) of the random_delay of h's
\* Executor ends.
SleepEnds(h) ==
    /\ ex[h].epc = "sleep"
    /\ ex'[h].epc # "sleep" \/ ex'[h].wait_time # ex[h].wait_time

\* C12: when the cancel predicate (stop_command) has become true during a
\* sleep increment of random_delay - the final increment of the wait
\* included - random_delay returns False when that increment ends: the run
\* ends through "if not continue_delay: return".
C12_PacerCancelLatency ==
    [][\A h \in H :
         (SleepEnds(h) /\ stop_command)
         => (ex'[h].epc = "done" /\ ex'[h].exit = "cancel_pacer")]_vars

\* C13: within one run every send_message call after the first is made
\* when a Pacer wait ends (also when the call before it raised), and when
\* the call for the last target ends the run ends without another wait.
C13_PacerBetweenNotAfter ==
    [][\A h \in H :
         /\ (ex[h].started >= 1 /\ ex'[h].started = ex[h].started + 1)
            => ex[h].epc = "sleep"
         /\ (/\ ex[h].epc = "send" /\ ex'[h].epc # "send"
             /\ ex[h].i + 1 = ex[h].n)
            => ex'[h].epc = "done"]_vars

\* The steps in which h calls reset_command_state(): its Executor returns
\* (finally), its handler's await of the task ends (finally), or the
\* handler's event.delete() raises (except Exception).
ResetCalled(h) ==
    \/ Running(ex[h]) /\ ex'[h].epc = "done"
    \/ pc[h] = "await_task" /\ pc'[h] = "done"
    \/ /\ pc[h] \in {"del_unauth", "del_nogroup", "del_busy", "del_admit"}
       /\ pc'[h] = "done" /\ h \notin deleted'

C15_ResetIdempotent ==
    [][\A h \in H :
         ResetCalled(h)
         => /\ raised' = raised
            /\ (allow_parallel_commands \/ Idle) => UNCHANGED ctl
            /\ Idle => Idle']_vars

\* The only command so far has run: its Executor's finally block and then
\* its handler's finally block have called reset_command_state, and the
\* controller is Idle.
C15_Witness ==
    \E h \in H : /\ ~allow_parallel_commands
                 /\ ex[h].epc = "joined" /\ pc[h] = "done"
                 /\ \A g \in H \ {h} : pc[g] = "new"
                 /\ raised = {}
                 /\ Idle

\* C16: is_admin(user_id, admin_ids, bot_id) is true if and only if user_id
\* is in admin_ids, or bot_id is known and user_id equals it, for every
\* user id, admin list and bot_id.
C16_IsAdminIff ==
    call.fn = "is_admin"
    => (call.result <=> (\/ call.user_id \in call.admin_ids
                         \/ (call.bot_id # None /\ call.user_id = call.bot_id)))

\* is_admin has accepted the userbot's own account, which is not in the
\* admin list.
C16_Witness ==
    /\ call.fn = "is_admin" /\ call.result
    /\ call.user_id \notin call.admin_ids
    /\ call.user_id = call.bot_id

\* The text of the tag body by the five cases, for the latest call.
FiveCaseText ==
    IF call.is_reply /\ HasPlaceholder(call.reply_msg.text)
    THEN ReplaceMention(call.reply_msg.text, call.mention)
    ELSE IF call.command_text # NoText
    THEN call.command_text \o <<"\n">> \o call.mention
    ELSE call.mention

\* C19 as stated: the tag body is a function of (is a reply, the reply text
\* contains {mention}, an argument is given) and the mention, by five
\* cases in priority order; in the two reply cases without placeholder the
\* message is sent as a reply to the replied-to message, in the two cases
\* without a reply as a normal message.
C19_TagBodyFiveCases ==
    call.fn = "tag_body"
    => /\ call.sent.text = FiveCaseText
       /\ (call.is_reply /\ ~HasPlaceholder(call.reply_msg.text))
          => call.sent.reply_to # None
       /\ ~call.is_reply => call.sent.reply_to = None

\* C19, amended: the text of the tag body is given by the five cases; the
\* message is sent as a reply only in the two reply cases without
\* placeholder and only when the replied-to message was fetched (then to
\* that message); in every other case it is a normal message.
C19_TagBodyFetched ==
    call.fn = "tag_body"
    => /\ call.sent.text = FiveCaseText
       /\ call.sent.reply_to =
            IF call.is_reply /\ ~HasPlaceholder(call.reply_msg.text)
            THEN call.reply_msg.id ELSE None

\* A reply whose text holds the placeholder twice, with an argument given:
\* the body is the reply text with both placeholders replaced.
C19_Witness ==
    /\ call.fn = "tag_body" /\ call.is_reply
    /\ call.command_text # NoText
    /\ call.reply_msg.text = <<"{mention}", "and", "{mention}">>
    /\ call.sent.text = call.mention \o <<"and">> \o call.mention
    /\ call.sent.reply_to = None

\* The /spam command of h had a count over the maximum or no text.
IllFormed(c) ==
    \/ c.spam_count # << >> /\ c.spam_count[1] > MaxSpamCount
    \/ c.word = "/spam" /\ c.text = NoText

\* C17: in parallel mode is_command_running() is False in every state, no
\* bulk command is rejected because a command is active, and every
\* authorized, well-formed bulk command (a /tagall in a group, a /spam with
\* text and a count within the maximum) whose "Delete command" succeeds is
\* admitted, whatever else is running.
C17_ParallelAdmitsAll ==
    /\ [](allow_parallel_commands
          => /\ ~is_command_running(None)
             /\ ~is_command_running("tagging")
             /\ ~is_command_running("spam")
             /\ \A h \in H : pc[h] # "del_busy")
    /\ [][allow_parallel_commands
          => \A h \in H :
               /\ (/\ pc[h] = "new" /\ cmd'[h].word \in BulkWords
                   /\ Authorized(cmd'[h])
                   /\ (cmd'[h].word = "/tagall" => is_group(cmd'[h].chat)))
                  => pc'[h] = "del_admit"
               /\ (/\ pc[h] = "del_admit" /\ pc'[h] # "del_admit"
                   /\ h \in deleted' /\ ~IllFormed(cmd'[h]))
                  => (Admitted(h)' /\ is_command_active')]_vars

\* In parallel mode two bulk operations are sending at the same time.
C17_Witness ==
    /\ allow_parallel_commands
    /\ \E h, g \in H : /\ h # g
                       /\ ex[h].epc = "send" /\ ex[g].epc = "send"
                       /\ ex[h].kind = "tagging" /\ ex[g].kind = "spam"

\* C18: in parallel mode two bulk operations in two different chats are
\* independent: one stop command does not cancel both of them, and while
\* one of them is admitted or running a cancellation requested for the
\* other is not cleared.
C18_ParallelIndependent ==
    [][allow_parallel_commands
       => \A g1, g2 \in H :
            (g1 # g2 /\ Suspended(ex[g1]))
            => /\ (Suspended(ex[g2]) /\ cmd[g1].chat # cmd[g2].chat)
                  => ~(/\ ~ex[g1].cancelled /\ ex'[g1].cancelled
                       /\ ~ex[g2].cancelled /\ ex'[g2].cancelled)
               /\ (/\ ex[g1].cancelled /\ stop_command
                   /\ Admitted(g2)' /\ cmd'[g2].chat # cmd[g1].chat)
                  => stop_command']_vars

\* C20: within one run the targets are acted on in enumeration order and
\* one at a time: the k-th send_message call is for the k-th target, a new
\* call is made only when the one before it has returned (and its Pacer
\* wait has ended) or has raised, so at most one call of the run is in
\* flight.
C20_InOrderOneAtATime ==
    /\ [](\A h \in H :
            /\ ex[h].started = ex[h].sent_count + ex[h].failed
                               + (IF ex[h].epc = "send" THEN 1 ELSE 0)
            /\ ex[h].epc = "send"
               => /\ ex[h].i = ex[h].started - 1
                  /\ ex[h].msg.chat = cmd[h].chat
                  /\ ex[h].kind = "tagging"
                     => /\ \E m \in Enumerations :
                             ex[h].participants = FilterMembers(m)
                        /\ ex[h].msg.mention =
                             Mention(ex[h].participants[ex[h].i + 1]))
    /\ [][\A h \in H :
            (ex'[h].started > ex[h].started)
            => /\ ex'[h].started = ex[h].started + 1
               /\ \/ ex[h].epc \in {"start", "enum", "sleep"}
                  \/ /\ ex[h].epc = "send"
                     /\ ex'[h].failed = ex[h].failed + 1]_vars

\* A tagging run has sent to its first target and is sending to its
\* second, whose mention the message carries.
C20_Witness ==
    \E h \in H : /\ ex[h].kind = "tagging" /\ ex[h].epc = "send"
                 /\ ex[h].i = 1 /\ ex[h].started = 2
                 /\ ex[h].sent_count = 1
                 /\ ex[h].msg.mention = Mention(ex[h].participants[2])
                 /\ ex[h].msg.mention # Mention(ex[h].participants[1])

\* C26: for every pair of spam settings that validate_config accepts and
\* every /spam command, with or without a count, a run that is not refused
\* attempts at most MAX_SPAM_COUNT messages.
C26_AtMostMax ==
    (call.fn = "set_count" /\ ~call.refused)
    => call.count <= call.max_spam_count

\* The returns an Executor takes because it found stop_command set.
CancelExits == {"cancel_loop", "cancel_pacer", "cancel_enum"}

\* C21: the step in which a bulk command becomes active leaves stop_command
\* unset; an Executor that returned because it found stop_command set was
\* stopped by a stop command issued after its command was admitted, never
\* by an earlier one; in non-parallel mode stop_command is set only while
\* is_command_active is set.
C21_AdmissionClearsStop ==
    /\ [][\A h \in H :
            (/\ pc[h] = "del_admit"
             /\ pc'[h] \in {"get_reply", "await_task"})
            => (/\ ~stop_command'
                /\ is_command_active'
                /\ ~ex'[h].stop_seen /\ ~ex'[h].cancelled)]_vars
    /\ [](\A h \in H : ex[h].exit \in CancelExits => ex[h].stop_seen)
    /\ []((~allow_parallel_commands /\ stop_command) => is_command_active)

\* A stop command was issued against one operation; an operation admitted
\* after it is sending, with stop_command unset.
C21_Witness ==
    \E g1, g2 \in H :
        /\ g1 < g2 /\ ex[g1].stop_seen
        /\ ex[g2].epc = "send" /\ ex[g2].started > 0
        /\ ~ex[g2].stop_seen /\ ~stop_command

\* C22: active_command_type is set, to "tagging" or "spam", exactly when
\* is_command_active is set.
C22_TypeIffActive ==
    /\ active_command_type \in {None, "tagging", "spam"}
    /\ (active_command_type # None) <=> is_command_active

\* An Executor is sending while its kind is the active type, and a command
\* has ended before it.
C22_Witness ==
    \E g1, g2 \in H :
        /\ g1 < g2 /\ ex[g1].epc = "joined"
        /\ ex[g2].epc = "send" /\ is_command_active
        /\ active_command_type = ex[g2].kind

\* C23: at every suspension point current_task is set exactly when
\* is_command_active is set, the wait for the replied-to message included.
C23_TaskIffActive == (current_task # {}) <=> is_command_active

\* C24: in non-parallel mode, while an Executor is suspended in one of its
\* awaits (it has not reached its finally block), is_command_active is set
\* and active_command_type is that Executor's kind.
C24_RunningIsBusy ==
    ~allow_parallel_commands
    => \A h \in H : Suspended(ex[h])
                    => (is_command_active /\ active_command_type = ex[h].kind)

\* The positions of a bulk command's handler in the event.delete() of a
\* rejection.
RejectPositions == {"del_unauth", "del_nogroup", "del_busy"}

\* C25: the handler of a bulk command that is not admitted (not an admin,
\* /tagall outside a group, another command active, spam count over the
\* maximum, spam text empty) changes none of is_command_active,
\* active_command_type, stop_command and current_task, whether its
\* event.delete() returns or raises.
C25_NotAdmittedNoChange ==
    [][\A h \in H :
         /\ (pc[h] = "new" /\ pc'[h] \in RejectPositions) => UNCHANGED ctl
         /\ (pc[h] \in RejectPositions /\ pc'[h] # pc[h])
            => (pc'[h] = "done" /\ UNCHANGED ctl)
         /\ (pc[h] = "del_admit" /\ pc'[h] = "done" /\ IllFormed(cmd'[h]))
            => UNCHANGED ctl]_vars

====
